---- MODULE Spec2Model ----
(***************************************************************************)
(* Model of the chat command router of src/swarms_gui.py: the global       *)
(* session record chat_agent_state, the parser parse_chat_command, the     *)
(* dispatcher execute_chat_command, the chat handler chat_interface and    *)
(* the chat tab's button handlers.                                         *)
(*                                                                         *)
(* Text is modelled as a sequence of one-character strings, so that        *)
(* strip / split / lower / float are computed character by character.      *)
(* A response is a sequence of segments: the literal pieces of the         *)
(* source's (f-)string and the values interpolated between them.           *)
(***************************************************************************)
EXTENDS Integers, Sequences, FiniteSets, TLC

VARIABLES chat_agent_state, pc, last, previous

vars == <<chat_agent_state, pc, last, previous>>

----------------------------------------------------------------------------
(* Bounds                                                                  *)

\* most successful runs counted since a /create or /clear command
MaxRuns == 3
\* longest text typed into the Agent Names box
MaxNameText == 4
\* largest value the Number of Agents slider is put to
MaxAgents == 2
\* most (user, assistant) pairs kept in the conversation history
MaxPairs == 2
\* longest whitespace run between a command word and its argument
MaxSep == 2

----------------------------------------------------------------------------
(* Characters and Python's str methods                                     *)

Whitespace == {" ", "\t", "\n"}

UpperSeq == <<"A","B","C","D","E","F","G","H","I","J","K","L","M",
              "N","O","P","Q","R","S","T","U","V","W","X","Y","Z">>

LowerSeq == <<"a","b","c","d","e","f","g","h","i","j","k","l","m",
              "n","o","p","q","r","s","t","u","v","w","x","y","z">>

DigitSeq == <<"0","1","2","3","4","5","6","7","8","9">>

isspace(c) == c \in Whitespace

\* str.lower on one character
lower_char(c) ==
    IF \E i \in 1..26 : UpperSeq[i] = c
    THEN LowerSeq[CHOOSE i \in 1..26 : UpperSeq[i] = c]
    ELSE c

\* str.lower
lower(s) == [i \in 1..Len(s) |-> lower_char(s[i])]

RECURSIVE lstrip(_)
\* str.lstrip: drop the leading whitespace run
lstrip(s) ==
    IF s = <<>> THEN s
    ELSE IF isspace(Head(s)) THEN lstrip(Tail(s)) ELSE s

RECURSIVE rstrip(_)
\* str.rstrip: drop the trailing whitespace run
rstrip(s) ==
    IF s = <<>> THEN s
    ELSE IF isspace(s[Len(s)]) THEN rstrip(SubSeq(s, 1, Len(s) - 1)) ELSE s

\* str.strip
strip(s) == rstrip(lstrip(s))

\* str.startswith
startswith(s, p) == Len(s) >= Len(p) /\ SubSeq(s, 1, Len(p)) = p

\* length of the leading run of non-whitespace characters of s
token_len(s) ==
    IF \E i \in 1..Len(s) : isspace(s[i])
    THEN (CHOOSE i \in 1..Len(s) :
             isspace(s[i]) /\ \A j \in 1..(i - 1) : ~isspace(s[j])) - 1
    ELSE Len(s)

\* faulty variant: only one whitespace character is dropped after the first token
split_maxsplit1_one_space(s) ==
    LET t    == lstrip(s)
        n    == token_len(t)
        rest == SubSeq(t, n + 2, Len(t))
    IN  IF t = <<>> THEN <<>>
        ELSE IF rest = <<>> THEN <<SubSeq(t, 1, n)>>
        ELSE <<SubSeq(t, 1, n), rest>>

\* str.split(maxsplit=1) with no separator: leading whitespace is skipped,
\* the first token ends at the first whitespace character, the whole
\* whitespace run after it is skipped, and what is left (if anything) is
\* the second part, kept as it is.
split_maxsplit1(s) ==
    LET t    == lstrip(s)
        n    == token_len(t)
        rest == lstrip(SubSeq(t, n + 1, Len(t)))
    IN  IF t = <<>> THEN <<>>
        ELSE IF rest = <<>> THEN <<SubSeq(t, 1, n)>>
        ELSE <<SubSeq(t, 1, n), rest>>

----------------------------------------------------------------------------
(* Python floats, to the precision of one decimal digit                    *)

\* a float is nan, an infinity or a signed number of tenths
NaN == [cls |-> "nan", neg |-> FALSE, tenths |-> 0]

Finite(neg, t) == [cls |-> "finite", neg |-> neg, tenths |-> t]

Infinity(neg) == [cls |-> "inf", neg |-> neg, tenths |-> 0]

\* the float literals 0 and 2 of the range test, and the default 0.7
Zero == Finite(FALSE, 0)

Two == Finite(FALSE, 20)

signed_tenths(f) == IF f.neg THEN 0 - f.tenths ELSE f.tenths

\* a < b on floats: every comparison with nan is false
float_lt(a, b) ==
    IF a.cls = "nan" \/ b.cls = "nan" THEN FALSE
    ELSE IF a.cls = "inf" THEN a.neg /\ ~(b.cls = "inf" /\ b.neg)
    ELSE IF b.cls = "inf" THEN ~b.neg
    ELSE signed_tenths(a) < signed_tenths(b)

\* a > b on floats
float_gt(a, b) == float_lt(b, a)

is_digit(c) == \E i \in 1..10 : DigitSeq[i] = c

digit_val(c) == (CHOOSE i \in 1..10 : DigitSeq[i] = c) - 1

RECURSIVE digits_val(_)
\* value of a non-empty run of decimal digits
digits_val(s) ==
    IF s = <<>> THEN 0
    ELSE 10 * digits_val(SubSeq(s, 1, Len(s) - 1)) + digit_val(s[Len(s)])

all_digits(s) == \A i \in 1..Len(s) : is_digit(s[i])

\* float(text): [ok |-> FALSE] stands for ValueError.  The accepted texts
\* are an optional sign followed by nan, inf, infinity (any case) or by
\* digits with at most one fractional digit; the inputs of this model use
\* no other float syntax (exponents, underscores, longer fractions).
float_parse(text) ==
    LET s     == strip(text)
        sgn   == s # <<>> /\ Head(s) \in {"+", "-"}
        neg   == s # <<>> /\ Head(s) = "-"
        body  == IF sgn THEN Tail(s) ELSE s
        low   == lower(body)
        dot   == IF \E i \in 1..Len(body) : body[i] = "."
                 THEN CHOOSE i \in 1..Len(body) : body[i] = "."
                        /\ \A j \in 1..(i - 1) : body[j] # "."
                 ELSE Len(body) + 1
        ip    == SubSeq(body, 1, dot - 1)
        fp    == SubSeq(body, dot + 1, Len(body))
    IN  IF low = <<"n","a","n">> THEN [ok |-> TRUE, val |-> NaN]
        ELSE IF low = <<"i","n","f">>
                \/ low = <<"i","n","f","i","n","i","t","y">>
             THEN [ok |-> TRUE, val |-> Infinity(neg)]
        ELSE IF /\ all_digits(ip) /\ all_digits(fp)
                /\ Len(ip) + Len(fp) >= 1
                /\ Len(fp) <= 1
             THEN [ok |-> TRUE,
                   val |-> Finite(neg, 10 * digits_val(ip) + digits_val(fp))]
        ELSE [ok |-> FALSE, val |-> NaN]

\* str(f) for the floats above: "nan", "inf", "-inf", "0.7", "-0.0", ...
RECURSIVE nat_str(_)
nat_str(n) ==
    IF n < 10 THEN <<DigitSeq[n + 1]>>
    ELSE nat_str(n \div 10) \o <<DigitSeq[(n % 10) + 1]>>

float_str(f) ==
    (IF f.neg THEN <<"-">> ELSE <<>>) \o
    (IF f.cls = "nan" THEN <<"n","a","n">>
     ELSE IF f.cls = "inf" THEN <<"i","n","f">>
     ELSE nat_str(f.tenths \div 10) \o <<".">> \o nat_str(f.tenths % 10))

----------------------------------------------------------------------------
(* Words of the chat language                                              *)

CMD_help == <<"h","e","l","p">>

CMD_create == <<"c","r","e","a","t","e">>

CMD_agent == <<"a","g","e","n","t">>

CMD_info == <<"i","n","f","o">>

CMD_reset == <<"r","e","s","e","t">>

CMD_task == <<"t","a","s","k">>

CMD_env == <<"e","n","v">>

CMD_upgrade == <<"u","p","g","r","a","d","e">>

CMD_version == <<"v","e","r","s","i","o","n">>

CMD_model == <<"m","o","d","e","l">>

CMD_temperature == <<"t","e","m","p","e","r","a","t","u","r","e">>

CMD_streaming == <<"s","t","r","e","a","m","i","n","g">>

CMD_clear == <<"c","l","e","a","r">>

CMD_save == <<"s","a","v","e">>

\* the tokens /streaming accepts
StreamingOn == {<<"o","n">>, <<"t","r","u","e">>, <<"1">>, <<"y","e","s">>}

StreamingOff == {<<"o","f","f">>, <<"f","a","l","s","e">>, <<"0">>, <<"n","o">>}

\* the defaults of the agent /create constructs
DefaultModel == <<"g","p","t","-","4">>

DefaultTemperature == Finite(FALSE, 7)

\* the agent name of a session with no agent
DefaultAgentName == <<"A","s","s","i","s","t","a","n","t">>

\* the prefix /task puts before the task text in the history
TaskPrefix == <<"T","a","s","k",":"," ">>

\* str(True), str(False), str(None)
bool_str(b) == IF b THEN <<"T","r","u","e">> ELSE <<"F","a","l","s","e">>

NoneStr == <<"N","o","n","e">>

----------------------------------------------------------------------------
(* Responses: the literal pieces of a format string and the values put     *)
(* between them.  The literals are the source's, without its emoji and     *)
(* with ' for its backquotes.                                              *)

Lit(s) == [lit |-> s, val |-> <<>>]

Val(v) == [lit |-> "", val |-> v]

\* the response text has the literal word w in it
HasWord(resp, w) == \E i \in 1..Len(resp) : resp[i] = Lit(w)

\* the response text has the interpolated value v in it
HasValue(resp, v) == \E i \in 1..Len(resp) : resp[i] = Val(v)

\* lines 438-471: the static help text (its body is not reproduced)
HelpText == <<Lit("**Available Commands:** ..."), Lit("/"), Lit("create"),
              Lit(" <name>' - Create a new agent with specified name ...")>>

\* line 475
CreateUsage == <<Lit("Please specify an agent name. Example: '/"),
                 Lit("create"), Lit(" DataAnalyst'")>>

\* lines 500 and 507
NoAgentCurrentlyActive ==
    <<Lit("No agent currently active. Use '/"), Lit("create"),
      Lit(" <name>' to create one.")>>

\* lines 531, 588, 601 and 617
NoAgentActive ==
    <<Lit("No agent active. Create one first with '/"), Lit("create"),
      Lit(" <name>'")>>

\* line 528
TaskUsage == <<Lit("Please specify a task. Example: '/task Analyze this data'")>>

\* line 585
ModelUsage == <<Lit("Please specify a model. Example: '/model gpt-4-turbo'")>>

\* line 598
TemperatureUsage ==
    <<Lit("Please specify a temperature value (0.0-2.0). Example: '/temperature 0.7'")>>

\* line 606
TemperatureRange == <<Lit("Temperature must be between 0.0 and 2.0")>>

\* line 611
TemperatureInvalid ==
    <<Lit("Invalid temperature value. Must be a number between 0.0 and 2.0")>>

\* line 626
StreamingUsage == <<Lit("Use '/streaming on' or '/streaming off'")>>

\* lines 670-681: the onboarding text of a plain message with no agent
Onboarding ==
    <<Lit("**Welcome to Swarms Chat!** No agent is currently active. To get started: 1. Create an agent: '/"),
      Lit("create"), Lit(" <name>' 2. Or type '/help' to see all commands ...")>>

----------------------------------------------------------------------------
(* The session record and the agent handle                                 *)

\* current_agent of a session with no agent (Python's None)
None == [handle |-> 0]

\* Agent(agent_name=..., model_name="gpt-4", temperature=0.7,
\* streaming_on=True): a fresh object, identified by its handle
Agent(h, name) ==
    [handle |-> h, agent_name |-> name, model_name |-> DefaultModel,
     temperature |-> DefaultTemperature, streaming_on |-> TRUE]

\* the module-level chat_agent_state
InitialSession ==
    [current_agent |-> None, agent_name |-> DefaultAgentName,
     conversation_history |-> <<>>]

Entry(role, content) == [role |-> role, content |-> content]

\* what a handler did: the session it leaves, the text it returns, the
\* delegate call it made ("none" if it made none) and the documents it wrote
Result(st, resp, dl, docs) ==
    [state |-> st, response |-> resp, delegate |-> dl, file |-> docs]

\* the document /save and the Save Chat button serialize
Document(st) ==
    [agent_name |-> st.agent_name, history |-> st.conversation_history]

----------------------------------------------------------------------------
(* parse_chat_command                                                      *)

parse_chat_command(message) ==
    LET m     == strip(message)
        parts == split_maxsplit1(m)
    IN  IF startswith(m, <<"/">>)
        THEN [type    |-> "command",
              command |-> lower(Tail(parts[1])),
              args    |-> IF Len(parts) > 1 THEN parts[2] ELSE <<>>,
              raw     |-> m]
        ELSE [type |-> "message", content |-> m, raw |-> m]

----------------------------------------------------------------------------
(* execute_chat_command, one operator for each branch.  st is the session  *)
(* before the command, o the outcome of the delegate call the branch makes *)
(* (if it makes one) and h the handle of the next object constructed.      *)

\* what a delegate call does: it raises an exception whose text is value,
\* or returns value (pip: with the process's return code)
Values == {<<"r","1">>, <<"r","2">>}

ErrorText == <<"e","r","r">>

OkText == <<"o","k">>

Returns(v, rc) == [raises |-> FALSE, value |-> v, returncode |-> rc]

Raises == [raises |-> TRUE, value |-> ErrorText, returncode |-> 0]

\* the outcomes of the delegate call dl; what a branch that calls nothing is
\* given is never read
Outcomes(dl) ==
    IF dl = "none" THEN {Raises}
    ELSE IF dl = "run" THEN {Returns(v, 0) : v \in Values} \cup {Raises}
    ELSE IF dl = "pip" THEN {Returns(OkText, 0), Returns(ErrorText, 1), Raises}
    ELSE {Returns(OkText, 0), Raises}

cmd_help(st) == Result(st, HelpText, "none", <<>>)

\* faulty variant: the history of the replaced agent is kept
cmd_create_keeps_history(st, args, o, h) ==
    IF args = <<>> THEN Result(st, CreateUsage, "none", <<>>)
    ELSE IF o.raises
    THEN Result(st, <<Lit("Error creating agent: "), Val(o.value)>>,
                "Agent", <<>>)
    ELSE Result([st EXCEPT !.current_agent = Agent(h, strip(args)),
                           !.agent_name = strip(args)],
                <<Lit("**Agent '"), Val(strip(args)),
                  Lit("' created successfully!** You can now chat with "),
                  Val(strip(args)),
                  Lit(" or use '/task' to execute specific tasks.")>>,
                "Agent", <<>>)

\* faulty variant: the session is reset before the agent is constructed
cmd_create_clears_first(st, args, o, h) ==
    IF args = <<>> THEN Result(st, CreateUsage, "none", <<>>)
    ELSE IF o.raises
    THEN Result([current_agent        |-> None,
                 agent_name           |-> strip(args),
                 conversation_history |-> <<>>],
                <<Lit("Error creating agent: "), Val(o.value)>>,
                "Agent", <<>>)
    ELSE Result([current_agent        |-> Agent(h, strip(args)),
                 agent_name           |-> strip(args),
                 conversation_history |-> <<>>],
                <<Lit("**Agent '"), Val(strip(args)),
                  Lit("' created successfully!** You can now chat with "),
                  Val(strip(args)),
                  Lit(" or use '/task' to execute specific tasks.")>>,
                "Agent", <<>>)

\* faulty variant: the new agent takes over the configuration of the agent it
\* replaces
cmd_create_inherits_config(st, args, o, h) ==
    IF args = <<>> THEN Result(st, CreateUsage, "none", <<>>)
    ELSE IF o.raises
    THEN Result(st, <<Lit("Error creating agent: "), Val(o.value)>>,
                "Agent", <<>>)
    ELSE Result([current_agent        |->
                     IF st.current_agent = None THEN Agent(h, strip(args))
                     ELSE [st.current_agent EXCEPT !.handle = h,
                                                   !.agent_name = strip(args)],
                 agent_name           |-> strip(args),
                 conversation_history |-> <<>>],
                <<Lit("**Agent '"), Val(strip(args)),
                  Lit("' created successfully!** You can now chat with "),
                  Val(strip(args)),
                  Lit(" or use '/task' to execute specific tasks.")>>,
                "Agent", <<>>)

cmd_create(st, args, o, h) ==
    IF args = <<>> THEN Result(st, CreateUsage, "none", <<>>)
    ELSE IF o.raises
    THEN Result(st, <<Lit("Error creating agent: "), Val(o.value)>>,
                "Agent", <<>>)
    ELSE Result([current_agent        |-> Agent(h, strip(args)),
                 agent_name           |-> strip(args),
                 conversation_history |-> <<>>],
                <<Lit("**Agent '"), Val(strip(args)),
                  Lit("' created successfully!** You can now chat with "),
                  Val(strip(args)),
                  Lit(" or use '/task' to execute specific tasks.")>>,
                "Agent", <<>>)

cmd_agent(st, args) ==
    IF args = <<>>
    THEN IF st.current_agent # None
         THEN Result(st, <<Lit("Current agent: **"), Val(st.agent_name),
                           Lit("**")>>, "none", <<>>)
         ELSE Result(st, NoAgentCurrentlyActive, "none", <<>>)
    ELSE Result(st, <<Lit("Agent switching not yet implemented. Current agent: "),
                      Val(st.agent_name)>>, "none", <<>>)

\* faulty variant: the number of (user, assistant) pairs is reported
cmd_info_counts_pairs(st) ==
    IF st.current_agent = None
    THEN Result(st, NoAgentCurrentlyActive, "none", <<>>)
    ELSE Result(st,
                <<Lit("**Current Agent Information:** Name: "),
                  Val(st.agent_name),
                  Lit(" Model: "), Val(st.current_agent.model_name),
                  Lit(" Temperature: "),
                  Val(float_str(st.current_agent.temperature)),
                  Lit(" Streaming: "),
                  Val(bool_str(st.current_agent.streaming_on)),
                  Lit(" Messages in history: "),
                  Val(nat_str(Len(st.conversation_history) \div 2))>>,
                "none", <<>>)

cmd_info(st) ==
    IF st.current_agent = None
    THEN Result(st, NoAgentCurrentlyActive, "none", <<>>)
    ELSE Result(st,
                <<Lit("**Current Agent Information:** Name: "),
                  Val(st.agent_name),
                  Lit(" Model: "), Val(st.current_agent.model_name),
                  Lit(" Temperature: "),
                  Val(float_str(st.current_agent.temperature)),
                  Lit(" Streaming: "),
                  Val(bool_str(st.current_agent.streaming_on)),
                  Lit(" Messages in history: "),
                  Val(nat_str(Len(st.conversation_history)))>>,
                "none", <<>>)

\* faulty variant: the history is cleared but the agent stays active
cmd_reset_history_only(st) ==
    Result([st EXCEPT !.conversation_history = <<>>],
           <<Lit("**Agent reset and history cleared.** Use '/"), Lit("create"),
             Lit(" <name>' to create a new agent.")>>,
           "none", <<>>)

\* faulty variant: the agent name of the agent that was reset is kept
cmd_reset_keeps_name(st) ==
    Result([current_agent        |-> None,
            agent_name           |-> st.agent_name,
            conversation_history |-> <<>>],
           <<Lit("**Agent reset and history cleared.** Use '/"), Lit("create"),
             Lit(" <name>' to create a new agent.")>>,
           "none", <<>>)

cmd_reset(st) ==
    Result([current_agent        |-> None,
            agent_name           |-> DefaultAgentName,
            conversation_history |-> <<>>],
           <<Lit("**Agent reset and history cleared.** Use '/"), Lit("create"),
             Lit(" <name>' to create a new agent.")>>,
           "none", <<>>)

\* faulty variant: the user entry is appended before the run is made
cmd_task_user_first(st, args, o) ==
    IF args = <<>> THEN Result(st, TaskUsage, "none", <<>>)
    ELSE IF st.current_agent = None
    THEN Result(st, NoAgentActive, "none", <<>>)
    ELSE IF o.raises
    THEN Result([st EXCEPT !.conversation_history =
                    @ \o <<Entry("user", TaskPrefix \o args)>>],
                <<Lit("Error executing task: "), Val(o.value)>>, "run", <<>>)
    ELSE Result([st EXCEPT !.conversation_history =
                    @ \o <<Entry("user", TaskPrefix \o args),
                           Entry("assistant", o.value)>>],
                <<Lit("**Task Result:** "), Val(o.value)>>, "run", <<>>)

\* faulty variant: the task text is stored as the assistant's entry
cmd_task_echo(st, args, o) ==
    IF args = <<>> THEN Result(st, TaskUsage, "none", <<>>)
    ELSE IF st.current_agent = None
    THEN Result(st, NoAgentActive, "none", <<>>)
    ELSE IF o.raises
    THEN Result(st, <<Lit("Error executing task: "), Val(o.value)>>,
                "run", <<>>)
    ELSE Result([st EXCEPT !.conversation_history =
                    @ \o <<Entry("user", TaskPrefix \o args),
                           Entry("assistant", args)>>],
                <<Lit("**Task Result:** "), Val(o.value)>>, "run", <<>>)

\* faulty variant: the active agent is not checked, so that with none the run call
\* on None raises inside the try block
cmd_task_no_agent_check(st, args, o) ==
    IF args = <<>> THEN Result(st, TaskUsage, "none", <<>>)
    ELSE IF st.current_agent = None \/ o.raises
    THEN Result(st, <<Lit("Error executing task: "), Val(o.value)>>,
                IF st.current_agent = None THEN "none" ELSE "run", <<>>)
    ELSE Result([st EXCEPT !.conversation_history =
                    @ \o <<Entry("user", TaskPrefix \o args),
                           Entry("assistant", o.value)>>],
                <<Lit("**Task Result:** "), Val(o.value)>>, "run", <<>>)

cmd_task(st, args, o) ==
    IF args = <<>> THEN Result(st, TaskUsage, "none", <<>>)
    ELSE IF st.current_agent = None
    THEN Result(st, NoAgentActive, "none", <<>>)
    ELSE IF o.raises
    THEN Result(st, <<Lit("Error executing task: "), Val(o.value)>>,
                "run", <<>>)
    ELSE Result([st EXCEPT !.conversation_history =
                    @ \o <<Entry("user", TaskPrefix \o args),
                           Entry("assistant", o.value)>>],
                <<Lit("**Task Result:** "), Val(o.value)>>, "run", <<>>)

\* faulty variant: a failing check is swallowed and nothing is returned
cmd_env_silent(st, o) ==
    IF o.raises THEN Result(st, <<>>, "check", <<>>)
    ELSE Result(st,
                <<Lit("**Environment Status:** Python: "), Val(o.value),
                  Lit(" API Keys: "), Val(o.value),
                  Lit(" Active Agent: "),
                  Val(IF st.current_agent # None THEN st.agent_name
                      ELSE NoneStr)>>,
                "check", <<>>)

cmd_env(st, o) ==
    IF o.raises
    THEN Result(st, <<Lit("Error checking environment: "), Val(o.value)>>,
                "check", <<>>)
    ELSE Result(st,
                <<Lit("**Environment Status:** Python: "), Val(o.value),
                  Lit(" API Keys: "), Val(o.value),
                  Lit(" Active Agent: "),
                  Val(IF st.current_agent # None THEN st.agent_name
                      ELSE NoneStr)>>,
                "check", <<>>)

cmd_upgrade(st, o) ==
    IF o.raises
    THEN Result(st, <<Lit("Error during upgrade: "), Val(o.value)>>,
                "pip", <<>>)
    ELSE IF o.returncode = 0
    THEN Result(st, <<Lit("**Swarms upgraded successfully!** Restart the GUI to use the new version.")>>,
                "pip", <<>>)
    ELSE Result(st, <<Lit("Upgrade failed: "), Val(o.value)>>, "pip", <<>>)

cmd_version(st, o) ==
    IF o.raises
    THEN Result(st, <<Lit("Error checking version: "), Val(o.value)>>,
                "check", <<>>)
    ELSE Result(st, <<Lit("**Swarms Version:** "), Val(o.value)>>,
                "check", <<>>)

\* faulty variant: the model is changed by constructing the agent anew, which
\* loses its temperature and its streaming flag
cmd_model_rebuilds_agent(st, args) ==
    IF args = <<>> THEN Result(st, ModelUsage, "none", <<>>)
    ELSE IF st.current_agent = None
    THEN Result(st, NoAgentActive, "none", <<>>)
    ELSE Result([st EXCEPT !.current_agent =
                    [Agent(st.current_agent.handle, st.agent_name)
                        EXCEPT !.model_name = strip(args)]],
                <<Lit("**Model changed to:** "), Val(strip(args))>>,
                "none", <<>>)

cmd_model(st, args) ==
    IF args = <<>> THEN Result(st, ModelUsage, "none", <<>>)
    ELSE IF st.current_agent = None
    THEN Result(st, NoAgentActive, "none", <<>>)
    ELSE Result([st EXCEPT !.current_agent.model_name = strip(args)],
                <<Lit("**Model changed to:** "), Val(strip(args))>>,
                "none", <<>>)

cmd_temperature(st, args) ==
    LET parsed == float_parse(strip(args))
        temp   == parsed.val
    IN  IF args = <<>> THEN Result(st, TemperatureUsage, "none", <<>>)
        ELSE IF st.current_agent = None
        THEN Result(st, NoAgentActive, "none", <<>>)
        ELSE IF ~parsed.ok THEN Result(st, TemperatureInvalid, "none", <<>>)
        ELSE IF float_lt(temp, Zero) \/ float_gt(temp, Two)
        THEN Result(st, TemperatureRange, "none", <<>>)
        ELSE Result([st EXCEPT !.current_agent.temperature = temp],
                    <<Lit("**Temperature set to:** "), Val(float_str(temp))>>,
                    "none", <<>>)

\* faulty variant: the token is compared without lowering its case
cmd_streaming_case_sensitive(st, args) ==
    IF st.current_agent = None
    THEN Result(st, NoAgentActive, "none", <<>>)
    ELSE IF args \in StreamingOn
    THEN Result([st EXCEPT !.current_agent.streaming_on = TRUE],
                <<Lit("**Streaming enabled**")>>, "none", <<>>)
    ELSE IF args \in StreamingOff
    THEN Result([st EXCEPT !.current_agent.streaming_on = FALSE],
                <<Lit("**Streaming disabled**")>>, "none", <<>>)
    ELSE Result(st, StreamingUsage, "none", <<>>)

cmd_streaming(st, args) ==
    IF st.current_agent = None
    THEN Result(st, NoAgentActive, "none", <<>>)
    ELSE IF lower(args) \in StreamingOn
    THEN Result([st EXCEPT !.current_agent.streaming_on = TRUE],
                <<Lit("**Streaming enabled**")>>, "none", <<>>)
    ELSE IF lower(args) \in StreamingOff
    THEN Result([st EXCEPT !.current_agent.streaming_on = FALSE],
                <<Lit("**Streaming disabled**")>>, "none", <<>>)
    ELSE Result(st, StreamingUsage, "none", <<>>)

\* faulty variant: /clear does what /reset does
cmd_clear_as_reset(st) ==
    Result([current_agent        |-> None,
            agent_name           |-> DefaultAgentName,
            conversation_history |-> <<>>],
           <<Lit("**Chat history cleared**")>>, "none", <<>>)

\* faulty variant: the history is reported cleared but is kept
cmd_clear_keeps_history(st) ==
    Result(st, <<Lit("**Chat history cleared**")>>, "none", <<>>)

cmd_clear(st) ==
    Result([st EXCEPT !.conversation_history = <<>>],
           <<Lit("**Chat history cleared**")>>, "none", <<>>)

\* faulty variant: the history is emptied once it has been written
cmd_save_and_clear(st, o) ==
    IF o.raises
    THEN Result(st, <<Lit("Error saving conversation: "), Val(o.value)>>,
                "open", <<>>)
    ELSE Result([st EXCEPT !.conversation_history = <<>>],
                <<Lit("**Conversation saved to:** chat_history_<timestamp>.json")>>,
                "open", <<Document(st)>>)

cmd_save(st, o) ==
    IF o.raises
    THEN Result(st, <<Lit("Error saving conversation: "), Val(o.value)>>,
                "open", <<>>)
    ELSE Result(st, <<Lit("**Conversation saved to:** chat_history_<timestamp>.json")>>,
                "open", <<Document(st)>>)

\* faulty variant: the answer does not name the command
cmd_unknown_anonymous(st, command) ==
    Result(st, <<Lit("Unknown command. Type '/help' to see available commands.")>>,
           "none", <<>>)

cmd_unknown(st, command) ==
    Result(st, <<Lit("Unknown command: '/"), Val(command),
                 Lit("' Type '/help' to see available commands.")>>,
           "none", <<>>)

execute_chat_command(st, command, args, o, h) ==
    IF command = CMD_help THEN cmd_help(st)
    ELSE IF command = CMD_create THEN cmd_create(st, args, o, h)
    ELSE IF command = CMD_agent THEN cmd_agent(st, args)
    ELSE IF command = CMD_info THEN cmd_info(st)
    ELSE IF command = CMD_reset THEN cmd_reset(st)
    ELSE IF command = CMD_task THEN cmd_task(st, args, o)
    ELSE IF command = CMD_env THEN cmd_env(st, o)
    ELSE IF command = CMD_upgrade THEN cmd_upgrade(st, o)
    ELSE IF command = CMD_version THEN cmd_version(st, o)
    ELSE IF command = CMD_model THEN cmd_model(st, args)
    ELSE IF command = CMD_temperature THEN cmd_temperature(st, args)
    ELSE IF command = CMD_streaming THEN cmd_streaming(st, args)
    ELSE IF command = CMD_clear THEN cmd_clear(st)
    ELSE IF command = CMD_save THEN cmd_save(st, o)
    ELSE cmd_unknown(st, command)

----------------------------------------------------------------------------
(* chat_interface and the chat tab's handlers                              *)

\* one row [user message, response] of the displayed chat log; the row
\* [None, text] of save_conversation has no user message
Row(user, bot) == [user |-> user, bot |-> bot]

\* faulty variant: the onboarding text starts the chat log anew
chat_interface_log_restarted(st, message, history, o, h) ==
    LET parsed == parse_chat_command(message)
        done(r, answered) ==
            [state     |-> r.state,
             response  |-> r.response,
             delegate  |-> r.delegate,
             file      |-> r.file,
             responded |-> answered,
             history   |-> IF answered
                           THEN Append(history, Row(<<message>>, r.response))
                           ELSE history]
    IN  IF message = <<>> \/ strip(message) = <<>>
        THEN done(Result(st, <<>>, "none", <<>>), FALSE)
        ELSE IF parsed.type = "command"
        THEN done(execute_chat_command(st, parsed.command, parsed.args, o, h),
                  TRUE)
        ELSE IF st.current_agent = None
        THEN [done(Result(st, Onboarding, "none", <<>>), TRUE)
                 EXCEPT !.history = <<Row(<<message>>, Onboarding)>>]
        ELSE IF o.raises
        THEN done(Result(st,
                         <<Lit("**Error:** "), Val(o.value),
                           Lit(" Try: Check your API keys with '/env' Create a new agent with '/"),
                           Lit("create"),
                           Lit(" <name>' Type '/help' for assistance")>>,
                         "run", <<>>), TRUE)
        ELSE done(Result([st EXCEPT !.conversation_history =
                             @ \o <<Entry("user", message),
                                    Entry("assistant", o.value)>>],
                         <<Val(o.value)>>, "run", <<>>), TRUE)

\* faulty variant: the message of a run that raised is recorded in the
\* conversation history
chat_interface_error_recorded(st, message, history, o, h) ==
    LET parsed == parse_chat_command(message)
        done(r, answered) ==
            [state     |-> r.state,
             response  |-> r.response,
             delegate  |-> r.delegate,
             file      |-> r.file,
             responded |-> answered,
             history   |-> IF answered
                           THEN Append(history, Row(<<message>>, r.response))
                           ELSE history]
    IN  IF message = <<>> \/ strip(message) = <<>>
        THEN done(Result(st, <<>>, "none", <<>>), FALSE)
        ELSE IF parsed.type = "command"
        THEN done(execute_chat_command(st, parsed.command, parsed.args, o, h),
                  TRUE)
        ELSE IF st.current_agent = None
        THEN done(Result(st, Onboarding, "none", <<>>), TRUE)
        ELSE IF o.raises
        THEN done(Result([st EXCEPT !.conversation_history =
                             @ \o <<Entry("user", message),
                                    Entry("assistant", o.value)>>],
                         <<Lit("**Error:** "), Val(o.value),
                           Lit(" Try: Check your API keys with '/env' Create a new agent with '/"),
                           Lit("create"),
                           Lit(" <name>' Type '/help' for assistance")>>,
                         "run", <<>>), TRUE)
        ELSE done(Result([st EXCEPT !.conversation_history =
                             @ \o <<Entry("user", message),
                                    Entry("assistant", o.value)>>],
                         <<Val(o.value)>>, "run", <<>>), TRUE)

\* chat_interface(message, history): the Result of the branch taken, the
\* chat log it returns, and whether it answered the message with a text
chat_interface(st, message, history, o, h) ==
    LET parsed == parse_chat_command(message)
        done(r, answered) ==
            [state     |-> r.state,
             response  |-> r.response,
             delegate  |-> r.delegate,
             file      |-> r.file,
             responded |-> answered,
             history   |-> IF answered
                           THEN Append(history, Row(<<message>>, r.response))
                           ELSE history]
    IN  IF message = <<>> \/ strip(message) = <<>>
        THEN done(Result(st, <<>>, "none", <<>>), FALSE)
        ELSE IF parsed.type = "command"
        THEN done(execute_chat_command(st, parsed.command, parsed.args, o, h),
                  TRUE)
        ELSE IF st.current_agent = None
        THEN done(Result(st, Onboarding, "none", <<>>), TRUE)
        ELSE IF o.raises
        THEN done(Result(st,
                         <<Lit("**Error:** "), Val(o.value),
                           Lit(" Try: Check your API keys with '/env' Create a new agent with '/"),
                           Lit("create"),
                           Lit(" <name>' Type '/help' for assistance")>>,
                         "run", <<>>), TRUE)
        ELSE done(Result([st EXCEPT !.conversation_history =
                             @ \o <<Entry("user", message),
                                    Entry("assistant", o.value)>>],
                         <<Val(o.value)>>, "run", <<>>), TRUE)

\* update_status(): the text of the Agent Status panel
update_status(st) ==
    IF st.current_agent # None
    THEN <<Lit("**Status:** Active **Agent:** "), Val(st.agent_name),
           Lit(" **Model:** "), Val(st.current_agent.model_name),
           Lit(" **Messages:** "), Val(nat_str(Len(st.conversation_history)))>>
    ELSE <<Lit("**Status:** No agent active Use '/"), Lit("create"),
           Lit(" <name>' to start")>>

\* faulty variant: the Clear Chat button also drops the agent
clear_chat_drops_agent(st) ==
    Result([st EXCEPT !.conversation_history = <<>>, !.current_agent = None],
           <<>>, "none", <<>>)

\* clear_chat(): the Clear Chat button
clear_chat(st) ==
    Result([st EXCEPT !.conversation_history = <<>>], <<>>, "none", <<>>)

\* faulty variant: the Reset Agent button leaves the history
reset_agent_keeps_history(st) ==
    Result([st EXCEPT !.current_agent = None,
                      !.agent_name = DefaultAgentName], <<>>, "none", <<>>)

\* reset_agent(): the Reset Agent button
reset_agent(st) ==
    Result([current_agent        |-> None,
            agent_name           |-> DefaultAgentName,
            conversation_history |-> <<>>], <<>>, "none", <<>>)

\* save_conversation(): the Save Chat button
save_conversation(st, o) ==
    IF o.raises
    THEN Result(st, <<Lit("Error saving: "), Val(o.value)>>, "open", <<>>)
    ELSE Result(st, <<Lit("Conversation saved to: chat_history_<timestamp>.json")>>,
                "open", <<Document(st)>>)

----------------------------------------------------------------------------
(* Inputs                                                                  *)

Bare(word) == <<"/">> \o word

Cmd(word, arg) == <<"/">> \o word \o <<" ">> \o arg

\* the messages submitted to the chat
Inputs ==
    { <<>>, <<" ">>,
      Bare(CMD_help),
      Cmd(CMD_create, <<"X">>), Cmd(CMD_create, <<"Y">>), Bare(CMD_create),
      Bare(CMD_agent), Cmd(CMD_agent, <<"X">>),
      Bare(CMD_info), Bare(CMD_reset),
      Cmd(CMD_task, <<"d","o">>), Bare(CMD_task),
      <<" ","/","T","a","s","k"," ","\t","d","o"," ">>,
      Cmd(CMD_model, <<"m","1">>), Bare(CMD_model),
      Cmd(CMD_temperature, <<"1",".","5">>),
      Cmd(CMD_temperature, <<"3",".","5">>),
      Cmd(CMD_temperature, <<"-","1">>),
      Cmd(CMD_temperature, <<"n","a","n">>),
      Cmd(CMD_temperature, <<"a","b","c">>),
      Bare(CMD_temperature),
      Cmd(CMD_streaming, <<"o","n">>), Cmd(CMD_streaming, <<"O","f","f">>),
      Cmd(CMD_streaming, <<"m","a","y","b","e">>),
      Bare(CMD_streaming),
      Bare(CMD_clear), Bare(CMD_save), Bare(CMD_version), Bare(CMD_env),
      Bare(CMD_upgrade),
      <<"/","f","o","o">>, <<"/","F","o","o">>,
      <<"h","i">> }

\* the chat logs the browser sends with a submission: that of a fresh page
\* and one with an earlier row
Logs == { <<>>, <<Row(<<Bare(CMD_help)>>, HelpText)>> }

----------------------------------------------------------------------------
(* The state machine.  The event loop is idle until an event arrives; the  *)
(* handler of the event runs to its end and returns its outputs (pc =      *)
(* "returned", last = what it was given and what it returned); the outputs *)
(* are then put on the page and the loop is idle again.                    *)

NoOutcome == [raises |-> FALSE, value |-> <<>>, returncode |-> 0]

\* the record of the handler that ran last: the session it found, its
\* inputs, the text and the chat log it returned, the delegate call it made
\* and the documents it wrote
Event(handler, pre, message, history, r, answered, log, o) ==
    [handler   |-> handler,
     pre       |-> pre,
     message   |-> message,
     history   |-> history,
     response  |-> r.response,
     responded |-> answered,
     chatbot   |-> log,
     delegate  |-> r.delegate,
     outcome   |-> IF r.delegate = "none" THEN NoOutcome ELSE o,
     file      |-> r.file]

NoEvent ==
    Event("none", InitialSession, <<>>, <<>>,
          Result(InitialSession, <<>>, "none", <<>>), FALSE, <<>>, NoOutcome)

Init ==
    /\ chat_agent_state = InitialSession
    /\ pc = "idle"
    /\ last = NoEvent
    /\ previous = "none"

\* the identity of a newly constructed object: it is not the object the
\* session still refers to
fresh_handle(st) == IF st.current_agent.handle = 1 THEN 2 ELSE 1

\* chat_and_update_status(message, history): the Send button and the
\* message box's submit event
Submit ==
    /\ pc = "idle"
    /\ \E message \in Inputs, history \in Logs :
        LET h  == fresh_handle(chat_agent_state)
            dl == chat_interface(chat_agent_state, message, history, Raises,
                                 h).delegate
        IN  \E o \in Outcomes(dl) :
                LET r == chat_interface(chat_agent_state, message, history,
                                        o, h)
                IN  /\ Len(r.state.conversation_history) <= 2 * MaxPairs
                    /\ chat_agent_state' = r.state
                    /\ last' = Event("submit", chat_agent_state, message,
                                     history, r, r.responded, r.history, o)
    /\ pc' = "returned"
    /\ UNCHANGED previous

ClearChat ==
    /\ pc = "idle"
    /\ LET r == clear_chat(chat_agent_state)
       IN  /\ chat_agent_state' = r.state
           /\ last' = Event("clear_chat", chat_agent_state, <<>>, <<>>, r,
                            FALSE, <<>>, NoOutcome)
    /\ pc' = "returned"
    /\ UNCHANGED previous

ResetAgent ==
    /\ pc = "idle"
    /\ LET r == reset_agent(chat_agent_state)
       IN  /\ chat_agent_state' = r.state
           /\ last' = Event("reset_agent", chat_agent_state, <<>>, <<>>, r,
                            FALSE, <<>>, NoOutcome)
    /\ pc' = "returned"
    /\ UNCHANGED previous

SaveConversation ==
    /\ pc = "idle"
    /\ \E o \in Outcomes("open") :
        LET r == save_conversation(chat_agent_state, o)
        IN  /\ chat_agent_state' = r.state
            /\ last' = Event("save_conversation", chat_agent_state, <<>>,
                             <<>>, r, TRUE, <<Row(<<>>, r.response)>>, o)
    /\ pc' = "returned"
    /\ UNCHANGED previous

\* the command a submission was parsed to (<<>> when it was none)
command_of(e) ==
    IF e.handler = "submit" /\ e.responded
       /\ parse_chat_command(e.message).type = "command"
    THEN parse_chat_command(e.message).command
    ELSE <<>>

\* the handler's outputs are shown and the next event is awaited; of the
\* event just handled only whether it was a /reset is remembered
Render ==
    /\ pc = "returned"
    /\ pc' = "idle"
    /\ last' = NoEvent
    /\ previous' = IF command_of(last) = CMD_reset THEN "reset" ELSE "other"
    /\ UNCHANGED chat_agent_state

Next == Submit \/ ClearChat \/ ResetAgent \/ SaveConversation \/ Render

Spec == Init /\ [][Next]_vars

----------------------------------------------------------------------------
(* The parser alone: a raw input is put together from a leading blank, a   *)
(* slash, a word, a whitespace run, an argument and a trailing blank, and  *)
(* parse_chat_command is applied to it.                                    *)

Leads == {<<>>, <<" ">>}

Slashes == {<<"/">>, <<>>}

Words == {<<>>, CMD_model, <<"M","o","d","E","L">>, <<"f","o","o">>}

Seps == UNION {[1..n -> {" ", "\t"}] : n \in 0..MaxSep}

Args == {<<>>, <<"g","p","t">>, <<"g"," "," ","x">>}

Trails == {<<>>, <<"\n">>}

NotParsed == [type |-> "none"]

InitParse ==
    /\ chat_agent_state = InitialSession
    /\ pc = "typed"
    /\ previous = "none"
    /\ \E lead \in Leads, slash \in Slashes, word \in Words, sep \in Seps,
          arg \in Args, trail \in Trails :
          last = [lead |-> lead, slash |-> slash, word |-> word, sep |-> sep,
                  arg |-> arg, trail |-> trail,
                  message |-> lead \o slash \o word \o sep \o arg \o trail,
                  parsed |-> NotParsed]

Parse ==
    /\ pc = "typed"
    /\ pc' = "parsed"
    /\ last' = [last EXCEPT !.parsed = parse_chat_command(last.message)]
    /\ UNCHANGED <<chat_agent_state, previous>>

NextParse == Parse

SpecParse == InitParse /\ [][NextParse]_vars

----------------------------------------------------------------------------
(* The handlers as the threads that run them.  Each event listener of the  *)
(* page has its own worker, so the handler of a chat submission and the    *)
(* handler of a button can be in progress together; the statements of a    *)
(* handler that touch chat_agent_state are then separate steps.  Here      *)
(* pc.worker is the position of chat_and_update_status on a /create or a   *)
(* /task, pc.button the position of clear_chat or reset_agent, and last    *)
(* the frame of the submission: its message, the session it found, the     *)
(* object it constructed or whose run it called, how the call ended, and   *)
(* the session as its last statement on chat_agent_state left it.          *)

ThreadInputs ==
    { Cmd(CMD_create, <<"X">>), Cmd(CMD_create, <<"Y">>),
      Cmd(CMD_task, <<"d","o">>) }

Frame(message, pre, agent, result, outcome, post) ==
    [message |-> message, pre |-> pre, agent |-> agent, result |-> result,
     outcome |-> outcome, post |-> post]

NoFrame == Frame(<<>>, InitialSession, None, <<>>, "none", InitialSession)

InitThreads ==
    /\ chat_agent_state = InitialSession
    /\ pc = [worker |-> "idle", button |-> "idle"]
    /\ last = NoFrame
    /\ previous = "none"

\* lines 473-479: /create <name> enters the constructor call
CreateCall ==
    /\ pc.worker = "idle"
    /\ \E message \in ThreadInputs :
          /\ parse_chat_command(message).command = CMD_create
          /\ parse_chat_command(message).args # <<>>
          /\ last' = Frame(message, chat_agent_state, None, <<>>, "none",
                           chat_agent_state)
    /\ pc' = [pc EXCEPT !.worker = "in_Agent"]
    /\ UNCHANGED <<chat_agent_state, previous>>

\* lines 479-485: the constructor returns the new object
CreateConstructed ==
    /\ pc.worker = "in_Agent"
    /\ last' = [last EXCEPT
                   !.agent = Agent(fresh_handle(chat_agent_state),
                                   strip(parse_chat_command(last.message).args)),
                   !.outcome = "returned"]
    /\ pc' = [pc EXCEPT !.worker = "set_agent"]
    /\ UNCHANGED <<chat_agent_state, previous>>

\* lines 492-493: the constructor raises, and the error text is returned
CreateRaises ==
    /\ pc.worker = "in_Agent"
    /\ last' = [last EXCEPT !.result = ErrorText, !.outcome = "raised"]
    /\ pc' = [pc EXCEPT !.worker = "returned"]
    /\ UNCHANGED <<chat_agent_state, previous>>

\* line 487
CreateSetAgent ==
    /\ pc.worker = "set_agent"
    /\ chat_agent_state' = [chat_agent_state EXCEPT !.current_agent = last.agent]
    /\ pc' = [pc EXCEPT !.worker = "set_name"]
    /\ UNCHANGED <<last, previous>>

\* line 488
CreateSetName ==
    /\ pc.worker = "set_name"
    /\ chat_agent_state' =
          [chat_agent_state EXCEPT !.agent_name = last.agent.agent_name]
    /\ pc' = [pc EXCEPT !.worker = "set_history"]
    /\ UNCHANGED <<last, previous>>

\* lines 489-491
CreateSetHistory ==
    /\ pc.worker = "set_history"
    /\ chat_agent_state' =
          [chat_agent_state EXCEPT !.conversation_history = <<>>]
    /\ pc' = [pc EXCEPT !.worker = "returned"]
    /\ last' = [last EXCEPT !.post = chat_agent_state']
    /\ UNCHANGED previous

\* lines 526-534: /task <text> with an agent active enters the run call of
\* the object chat_agent_state refers to at that moment
TaskCall ==
    /\ pc.worker = "idle"
    /\ chat_agent_state.current_agent # None
    /\ Len(chat_agent_state.conversation_history) + 2 <= 2 * MaxPairs
    /\ \E message \in ThreadInputs :
          /\ parse_chat_command(message).command = CMD_task
          /\ parse_chat_command(message).args # <<>>
          /\ last' = Frame(message, chat_agent_state,
                           chat_agent_state.current_agent, <<>>, "none",
                           chat_agent_state)
    /\ pc' = [pc EXCEPT !.worker = "in_run"]
    /\ UNCHANGED <<chat_agent_state, previous>>

\* lines 530-531: /task <text> with no agent active returns the error text
TaskRefused ==
    /\ pc.worker = "idle"
    /\ chat_agent_state.current_agent = None
    /\ \E message \in ThreadInputs :
          /\ parse_chat_command(message).command = CMD_task
          /\ last' = Frame(message, chat_agent_state, None, <<>>, "refused",
                           chat_agent_state)
    /\ pc' = [pc EXCEPT !.worker = "returned"]
    /\ UNCHANGED <<chat_agent_state, previous>>

\* line 534: the run call returns its result
RunReturns ==
    /\ pc.worker = "in_run"
    /\ \E v \in Values :
          last' = [last EXCEPT !.result = v, !.outcome = "returned"]
    /\ pc' = [pc EXCEPT !.worker = "append_user"]
    /\ UNCHANGED <<chat_agent_state, previous>>

\* lines 544-545: the run call raises, and the error text is returned
RunRaises ==
    /\ pc.worker = "in_run"
    /\ last' = [last EXCEPT !.result = ErrorText, !.outcome = "raised"]
    /\ pc' = [pc EXCEPT !.worker = "returned"]
    /\ UNCHANGED <<chat_agent_state, previous>>

\* lines 535-538: the entry is appended to the list chat_agent_state holds
\* when the statement is executed
AppendUser ==
    /\ pc.worker = "append_user"
    /\ chat_agent_state' =
          [chat_agent_state EXCEPT !.conversation_history =
              Append(@, Entry("user",
                              TaskPrefix \o parse_chat_command(last.message).args))]
    /\ pc' = [pc EXCEPT !.worker = "append_assistant"]
    /\ UNCHANGED <<last, previous>>

\* lines 539-543
AppendAssistant ==
    /\ pc.worker = "append_assistant"
    /\ chat_agent_state' =
          [chat_agent_state EXCEPT !.conversation_history =
              Append(@, Entry("assistant", last.result))]
    /\ pc' = [pc EXCEPT !.worker = "returned"]
    /\ last' = [last EXCEPT !.post = chat_agent_state']
    /\ UNCHANGED previous

\* chat_and_update_status has returned and its outputs are on the page
WorkerDone ==
    /\ pc.worker = "returned"
    /\ pc' = [pc EXCEPT !.worker = "idle"]
    /\ last' = NoFrame
    /\ UNCHANGED <<chat_agent_state, previous>>

\* line 978: the Clear Chat button
ClearChatAssign ==
    /\ pc.button = "idle"
    /\ chat_agent_state' =
          [chat_agent_state EXCEPT !.conversation_history = <<>>]
    /\ pc' = [pc EXCEPT !.button = "update_status"]
    /\ UNCHANGED <<last, previous>>

\* line 988: the Reset Agent button
ResetAgentSetAgent ==
    /\ pc.button = "idle"
    /\ chat_agent_state' = [chat_agent_state EXCEPT !.current_agent = None]
    /\ pc' = [pc EXCEPT !.button = "reset_name"]
    /\ UNCHANGED <<last, previous>>

\* line 989
ResetAgentSetName ==
    /\ pc.button = "reset_name"
    /\ chat_agent_state' =
          [chat_agent_state EXCEPT !.agent_name = DefaultAgentName]
    /\ pc' = [pc EXCEPT !.button = "reset_history"]
    /\ UNCHANGED <<last, previous>>

\* line 990
ResetAgentSetHistory ==
    /\ pc.button = "reset_history"
    /\ chat_agent_state' =
          [chat_agent_state EXCEPT !.conversation_history = <<>>]
    /\ pc' = [pc EXCEPT !.button = "update_status"]
    /\ UNCHANGED <<last, previous>>

\* lines 979 and 991: the button's handler returns the status text
ButtonDone ==
    /\ pc.button = "update_status"
    /\ pc' = [pc EXCEPT !.button = "idle"]
    /\ UNCHANGED <<chat_agent_state, last, previous>>

NextThreads ==
    \/ CreateCall \/ CreateConstructed \/ CreateRaises
    \/ CreateSetAgent \/ CreateSetName \/ CreateSetHistory
    \/ TaskCall \/ TaskRefused \/ RunReturns \/ RunRaises
    \/ AppendUser \/ AppendAssistant \/ WorkerDone
    \/ ClearChatAssign \/ ResetAgentSetAgent \/ ResetAgentSetName
    \/ ResetAgentSetHistory \/ ButtonDone

SpecThreads == InitThreads /\ [][NextThreads]_vars

----------------------------------------------------------------------------
(* The handlers with the successful runs counted.  The state machine is    *)
(* that of Spec, with one message for each command, and previous holds two *)
(* counts of the agent runs that returned: since_command is set back to 0  *)
(* by a successful /create and by /clear, since_any also by the Clear Chat *)
(* button.  Both are set back by /reset and the Reset Agent button, after  *)
(* which no agent is active until the next successful /create.             *)

CountInputs ==
    { Bare(CMD_help), Cmd(CMD_create, <<"X">>), Bare(CMD_agent),
      Bare(CMD_info), Bare(CMD_reset), Cmd(CMD_task, <<"d","o">>),
      Cmd(CMD_model, <<"m","1">>), Cmd(CMD_temperature, <<"1",".","5">>),
      Cmd(CMD_streaming, <<"O","f","f">>), Bare(CMD_clear), Bare(CMD_save),
      Bare(CMD_version), Bare(CMD_env), Bare(CMD_upgrade),
      <<"/","f","o","o">>, <<"h","i">> }

Runs(c, a) == [since_command |-> c, since_any |-> a]

\* the handler of event e made an agent run that returned
IsRun(e) == e.delegate = "run" /\ ~e.outcome.raises

\* the handler of event e was a /create that installed its agent
IsCreate(e) ==
    command_of(e) = CMD_create /\ e.delegate = "Agent" /\ ~e.outcome.raises

\* the counts after the handler of event e
runs_after(n, e) ==
    IF IsRun(e) THEN Runs(n.since_command + 1, n.since_any + 1)
    ELSE IF IsCreate(e) \/ command_of(e) \in {CMD_clear, CMD_reset}
            \/ e.handler = "reset_agent"
    THEN Runs(0, 0)
    ELSE IF e.handler = "clear_chat" THEN Runs(n.since_command, 0)
    ELSE n

InitCount ==
    /\ chat_agent_state = InitialSession
    /\ pc = "idle"
    /\ last = NoEvent
    /\ previous = Runs(0, 0)

\* chat_and_update_status(message, history)
CountSubmit ==
    /\ pc = "idle"
    /\ \E message \in CountInputs :
        LET h  == fresh_handle(chat_agent_state)
            dl == chat_interface(chat_agent_state, message, <<>>, Raises,
                                 h).delegate
        IN  \E o \in Outcomes(dl) :
                LET r == chat_interface(chat_agent_state, message, <<>>, o, h)
                    e == Event("submit", chat_agent_state, message, <<>>, r,
                               r.responded, r.history, o)
                IN  /\ Len(r.state.conversation_history) <= 2 * MaxPairs
                    /\ runs_after(previous, e).since_command <= MaxRuns
                    /\ chat_agent_state' = r.state
                    /\ last' = e
                    /\ previous' = runs_after(previous, e)
    /\ pc' = "returned"

\* clear_chat()
CountClearChat ==
    /\ pc = "idle"
    /\ LET r == clear_chat(chat_agent_state)
           e == Event("clear_chat", chat_agent_state, <<>>, <<>>, r, FALSE,
                      <<>>, NoOutcome)
       IN  /\ chat_agent_state' = r.state
           /\ last' = e
           /\ previous' = runs_after(previous, e)
    /\ pc' = "returned"

\* reset_agent()
CountResetAgent ==
    /\ pc = "idle"
    /\ LET r == reset_agent(chat_agent_state)
           e == Event("reset_agent", chat_agent_state, <<>>, <<>>, r, FALSE,
                      <<>>, NoOutcome)
       IN  /\ chat_agent_state' = r.state
           /\ last' = e
           /\ previous' = runs_after(previous, e)
    /\ pc' = "returned"

\* save_conversation()
CountSaveConversation ==
    /\ pc = "idle"
    /\ \E o \in Outcomes("open") :
        LET r == save_conversation(chat_agent_state, o)
            e == Event("save_conversation", chat_agent_state, <<>>, <<>>, r,
                       TRUE, <<Row(<<>>, r.response)>>, o)
        IN  /\ chat_agent_state' = r.state
            /\ last' = e
            /\ previous' = runs_after(previous, e)
    /\ pc' = "returned"

\* the handler's outputs are shown and the next event is awaited
CountRender ==
    /\ pc = "returned"
    /\ pc' = "idle"
    /\ last' = NoEvent
    /\ UNCHANGED <<chat_agent_state, previous>>

NextCount ==
    \/ CountSubmit \/ CountClearChat \/ CountResetAgent
    \/ CountSaveConversation \/ CountRender

SpecCount == InitCount /\ [][NextCount]_vars

----------------------------------------------------------------------------
(* generate_agent_yaml.  The YAML text is a sequence of lines, each the    *)
(* literal pieces yaml.dump emits (block style, keys in insertion order)   *)
(* and the values between them; the names of this model are letters and    *)
(* inner blanks, which yaml.dump emits as plain scalars.                   *)

RECURSIVE split_comma(_)
\* str.split(","): the pieces between the commas, empty ones included
split_comma(s) ==
    IF \E i \in 1..Len(s) : s[i] = ","
    THEN LET i == CHOOSE k \in 1..Len(s) :
                     s[k] = "," /\ \A j \in 1..(k - 1) : s[j] # ","
         IN  <<SubSeq(s, 1, i - 1)>> \o split_comma(SubSeq(s, i + 1, Len(s)))
    ELSE <<s>>

nonblank(n) == strip(n) # <<>>

\* faulty variant: the blank pieces are kept as names
names_of_keeps_blank(agent_names) ==
    LET pieces == split_comma(agent_names)
    IN  [i \in 1..Len(pieces) |-> strip(pieces[i])]

\* line 224: [n.strip() for n in agent_names.split(",") if n.strip()]
names_of(agent_names) ==
    LET kept == SelectSeq(split_comma(agent_names), nonblank)
    IN  [i \in 1..Len(kept) |-> strip(kept[i])]

\* lines 231-243: the entry of one agent
agent_entry(name, model) ==
    [agent_name     |-> name,
     model          |-> [model_name |-> model, temperature |-> Finite(FALSE, 5),
                         max_tokens |-> 4000],
     system_prompt  |-> <<Lit("You are "), Val(name),
                          Lit(", a specialized AI assistant.")>>,
     max_loops      |-> 1,
     autosave       |-> TRUE,
     verbose        |-> TRUE,
     stopping_token |-> "<DONE>"]

\* line 248: the task of one agent
task_entry(name) ==
    <<Lit("Analyze and process the given task for "), Val(name)>>

\* lines 229-249
config_of(names, model) ==
    [agents |-> [i \in 1..Len(names) |-> agent_entry(names[i], model)],
     tasks  |-> [i \in 1..Len(names) |-> task_entry(names[i])]]

\* str(True) / str(False) of YAML
yaml_bool(b) == IF b THEN "true" ELSE "false"

\* the lines yaml.dump emits for one agent entry
dump_agent(a) ==
    << <<Lit("- agent_name: "), Val(a.agent_name)>>,
       <<Lit("  model:")>>,
       <<Lit("    model_name: "), Val(a.model.model_name)>>,
       <<Lit("    temperature: "), Val(float_str(a.model.temperature))>>,
       <<Lit("    max_tokens: "), Val(nat_str(a.model.max_tokens))>>,
       <<Lit("  system_prompt: ")>> \o a.system_prompt,
       <<Lit("  max_loops: "), Val(nat_str(a.max_loops))>>,
       <<Lit("  autosave: "), Lit(yaml_bool(a.autosave))>>,
       <<Lit("  verbose: "), Lit(yaml_bool(a.verbose))>>,
       <<Lit("  stopping_token: "), Lit(a.stopping_token)>> >>

RECURSIVE dump_agents(_)
dump_agents(agents) ==
    IF agents = <<>> THEN <<>>
    ELSE dump_agent(Head(agents)) \o dump_agents(Tail(agents))

\* line 251: yaml.dump(config, default_flow_style=False, sort_keys=False)
yaml_dump(config) ==
    (IF config.agents = <<>> THEN << <<Lit("agents: []")>> >>
     ELSE << <<Lit("agents:")>> >> \o dump_agents(config.agents))
    \o
    (IF config.tasks = <<>> THEN << <<Lit("tasks: []")>> >>
     ELSE << <<Lit("tasks:")>> >>
          \o [i \in 1..Len(config.tasks) |-> <<Lit("- ")>> \o config.tasks[i]])

\* how the write of lines 254-257 ends: the file is written, open raises,
\* or f.write raises after open has created the file
WriteOutcomes == {"written", "open_raises", "write_raises"}

\* what generate_agent_yaml returns (status, text) and leaves on disk
Generated(status, text, docs) ==
    [status |-> status, text |-> text, file |-> docs]

generate_agent_yaml(num_agents, agent_names, model, o) ==
    LET names    == names_of(agent_names)
        yaml_str == yaml_dump(config_of(names, model))
    IN  IF Len(names) # num_agents
        THEN Generated(<<Lit("Error")>>,
                       <<Lit("Please provide exactly "),
                         Val(nat_str(num_agents)),
                         Lit(" agent names separated by commas")>>,
                       <<>>)
        ELSE IF o = "open_raises"
        THEN Generated(<<Lit("Error: "), Val(ErrorText)>>, <<Val(ErrorText)>>,
                       <<>>)
        ELSE IF o = "write_raises"
        THEN Generated(<<Lit("Error: "), Val(ErrorText)>>, <<Val(ErrorText)>>,
                       << <<>> >>)
        ELSE Generated(<<Lit("YAML configuration generated and saved to agents_config_<timestamp>.yaml")>>,
                       yaml_str, <<yaml_str>>)

NameChars == {"a", "b", " ", ","}

\* the texts typed into the Agent Names box
NameTexts == UNION {[1..n -> NameChars] : n \in 0..MaxNameText}

\* two of the choices of the Default Model dropdown
YamlModels == {DefaultModel, <<"g","p","t","-","4","-","t","u","r","b","o">>}

NotGenerated == Generated(<<>>, <<>>, <<>>)

InitYaml ==
    /\ chat_agent_state = InitialSession
    /\ pc = "filled"
    /\ previous = "none"
    /\ \E num_agents \in 1..MaxAgents, agent_names \in NameTexts,
          model \in YamlModels, o \in WriteOutcomes :
          last = [num_agents |-> num_agents, agent_names |-> agent_names,
                  model |-> model, outcome |-> o, result |-> NotGenerated]

\* generate_yaml_btn.click
GenerateYaml ==
    /\ pc = "filled"
    /\ pc' = "generated"
    /\ last' = [last EXCEPT !.result =
                    generate_agent_yaml(last.num_agents, last.agent_names,
                                        last.model, last.outcome)]
    /\ UNCHANGED <<chat_agent_state, previous>>

NextYaml == GenerateYaml

SpecYaml == InitYaml /\ [][NextYaml]_vars

----------------------------------------------------------------------------
(* Properties                                                              *)

\* a handler has returned, and last describes it
Returned == pc = "returned"

\* the handler was a chat submission
Submitted == Returned /\ last.handler = "submit"

\* the submission was parsed as a command
Commanded ==
    Submitted /\ last.responded
    /\ parse_chat_command(last.message).type = "command"

\* the submission was the command c
Command(c) == Commanded /\ parse_chat_command(last.message).command = c

\* the argument text of the command submitted
ArgsOfLast == parse_chat_command(last.message).args

\* the submission ran the agent, and the run returned / raised
RunReturned == Submitted /\ last.delegate = "run" /\ ~last.outcome.raises

RunRaised == Submitted /\ last.delegate = "run" /\ last.outcome.raises

History == chat_agent_state.conversation_history

\* text t occurs in text c
Occurs(t, c) ==
    \E i \in 1..(Len(c) - Len(t) + 1) : SubSeq(c, i, i + Len(t) - 1) = t

KnownCommands ==
    {CMD_help, CMD_create, CMD_agent, CMD_info, CMD_reset, CMD_task, CMD_env,
     CMD_upgrade, CMD_version, CMD_model, CMD_temperature, CMD_streaming,
     CMD_clear, CMD_save}

\* C1: the history is a sequence of (user, assistant) pairs; it grows only
\* by the one pair a successful agent run appends, and a run that raises
\* appends nothing and returns an error text carrying the exception.
C1_HistoryPairs ==
    /\ Len(History) % 2 = 0
    /\ \A i \in 1..Len(History) :
          History[i].role = IF i % 2 = 1 THEN "user" ELSE "assistant"
    /\ (Returned /\ Len(History) > Len(last.pre.conversation_history))
          => /\ RunReturned
             /\ Len(History) = Len(last.pre.conversation_history) + 2
             /\ SubSeq(History, 1, Len(History) - 2)
                   = last.pre.conversation_history
    /\ RunRaised
          => /\ History = last.pre.conversation_history
             /\ last.response[1] \in {Lit("Error executing task: "),
                                      Lit("**Error:** ")}
             /\ HasValue(last.response, last.outcome.value)

\* a run raised in a session whose history already held a pair
C1_Witness ==
    RunRaised /\ Len(last.pre.conversation_history) = 2 /\ Len(History) = 2

\* C2: a successful /task T appends exactly the two entries (user, content
\* containing T) and (assistant, the run result), in that order; a /task
\* whose run raises leaves history, active agent and agent name as they were.
C2_TaskAppendsPair ==
    (Command(CMD_task) /\ last.delegate = "run")
        => IF last.outcome.raises
           THEN chat_agent_state = last.pre
           ELSE /\ Len(History) = Len(last.pre.conversation_history) + 2
                /\ SubSeq(History, 1, Len(History) - 2)
                      = last.pre.conversation_history
                /\ History[Len(History) - 1].role = "user"
                /\ Occurs(ArgsOfLast, History[Len(History) - 1].content)
                /\ History[Len(History)]
                      = Entry("assistant", last.outcome.value)
                /\ chat_agent_state.current_agent = last.pre.current_agent
                /\ chat_agent_state.agent_name = last.pre.agent_name

\* a /task succeeded in a session whose history already held a pair
C2_Witness ==
    /\ Command(CMD_task) /\ RunReturned
    /\ Len(last.pre.conversation_history) = 2
    /\ Len(History) = 4

\* C3 as stated: every submission, blank ones included, is answered with a
\* text.
C3_EveryInputAnswered ==
    Submitted => (last.responded /\ last.response # <<>>)

\* C3: every submission that is not blank is answered with a non-empty text,
\* which is the row appended to the chat log, also when its delegate call
\* raises; a blank or whitespace-only submission gets no answer, and the
\* log and the session are returned as they were.  The session is a
\* well-formed record either way.
C3_NonBlankAnswered ==
    Submitted
        => /\ last.responded <=> (strip(last.message) # <<>>)
           /\ last.responded
                 => /\ last.response # <<>>
                    /\ last.chatbot
                          = Append(last.history,
                                   Row(<<last.message>>, last.response))
           /\ ~last.responded
                 => /\ last.chatbot = last.history
                    /\ chat_agent_state = last.pre
           /\ DOMAIN chat_agent_state
                 = {"current_agent", "agent_name", "conversation_history"}

\* a command whose delegate call raised was answered
C3_Witness ==
    /\ Submitted /\ last.delegate # "none" /\ last.outcome.raises
    /\ last.responded /\ last.response # <<>>

\* the parsed input was put together as a command with a separated argument
ParsedCommandInput ==
    /\ pc = "parsed"
    /\ last.slash = <<"/">>
    /\ last.sep # <<>> \/ last.arg = <<>>

\* C4 as stated: the argument is the remainder of the trimmed input after
\* the first token, with one leading whitespace character removed.
C4_OneSpaceRemoved ==
    ParsedCommandInput
        => /\ last.parsed.command = lower(last.word)
           /\ last.parsed.args
                 = IF last.arg = <<>> THEN <<>>
                   ELSE Tail(last.sep \o last.arg)

\* C4: the command is the lowercased first token without its slash, and the
\* argument is the remainder with the whole whitespace run that separates it
\* from the first token removed (whitespace inside the argument is kept); an
\* input with no remainder yields the empty argument.
C4_WholeRunRemoved ==
    ParsedCommandInput
        => /\ last.parsed.type = "command"
           /\ last.parsed.command = lower(last.word)
           /\ last.parsed.args = last.arg

\* mixed case, a two-character separator, an argument with inner blanks
C4_Witness ==
    /\ ParsedCommandInput
    /\ last.word = <<"M","o","d","E","L">>
    /\ Len(last.sep) = 2
    /\ last.arg = <<"g"," "," ","x">>
    /\ last.parsed.args = <<"g"," "," ","x">>

C6_TaskNoAgentSaysCreate ==
    (Command(CMD_task) /\ last.pre.current_agent = None)
        => /\ chat_agent_state = last.pre
           /\ HasWord(last.response, "create")

\* C6: /task with no active agent changes nothing and calls nothing; with a
\* non-empty argument its answer is the no-agent error, which has the word
\* "create" in it, and with an empty argument it is the usage error of /task.
C6_TaskNoAgent ==
    (Command(CMD_task) /\ last.pre.current_agent = None)
        => /\ chat_agent_state = last.pre
           /\ last.delegate = "none"
           /\ ArgsOfLast # <<>>
                 => /\ last.response = NoAgentActive
                    /\ HasWord(last.response, "create")
           /\ ArgsOfLast = <<>> => last.response = TaskUsage

\* /task with a task text was submitted while no agent was active
C6_Witness ==
    /\ Command(CMD_task) /\ last.pre.current_agent = None
    /\ ArgsOfLast = <<"d","o">>
    /\ HasWord(last.response, "create")

\* C7: /info submitted right after /reset is answered with the no-agent
\* error.
C7_ResetThenInfo ==
    (Command(CMD_info) /\ previous = "reset")
        => last.response = NoAgentCurrentlyActive

\* /info was submitted right after /reset
C7_Witness ==
    /\ Command(CMD_info) /\ previous = "reset"
    /\ HasWord(last.response, "create")

\* C8: a successful /create Y makes a new agent named Y the active one and
\* leaves the history empty, whatever agent and history were there before.
C8_CreateReplaces ==
    (Command(CMD_create) /\ last.delegate = "Agent" /\ ~last.outcome.raises)
        => /\ chat_agent_state.agent_name = ArgsOfLast
           /\ chat_agent_state.current_agent # None
           /\ chat_agent_state.current_agent.agent_name = ArgsOfLast
           /\ chat_agent_state.current_agent.handle
                 # last.pre.current_agent.handle
           /\ History = <<>>

\* /create Y succeeded while agent X was active with a non-empty history
C8_Witness ==
    /\ Command(CMD_create) /\ last.delegate = "Agent" /\ ~last.outcome.raises
    /\ last.pre.agent_name = <<"X">>
    /\ last.pre.current_agent # None
    /\ Len(last.pre.conversation_history) = 4
    /\ chat_agent_state.agent_name = <<"Y">>
    /\ History = <<>>

\* the number v is inside the interval [0, 2]
InUnitRange(v) ==
    v.cls = "finite" /\ 0 <= signed_tenths(v) /\ signed_tenths(v) <= 20

\* C9: /temperature v sets the handle's temperature to v exactly when an
\* agent is active and v parses as a number inside [0, 2]; for every other v
\* the session is left as it was.
C9_TemperatureInRange ==
    Command(CMD_temperature)
        => LET p == float_parse(ArgsOfLast)
           IN  IF last.pre.current_agent # None /\ p.ok /\ InUnitRange(p.val)
               THEN chat_agent_state
                       = [last.pre EXCEPT !.current_agent.temperature = p.val]
               ELSE chat_agent_state = last.pre

\* C10: an unrecognized command is answered with a text that has the
\* (lowercased) command token in it, and leaves the session as it was.
C10_UnknownCommand ==
    (Commanded
       /\ parse_chat_command(last.message).command \notin KnownCommands)
        => /\ HasValue(last.response,
                       parse_chat_command(last.message).command)
           /\ chat_agent_state = last.pre
           /\ last.delegate = "none"

\* /foo was submitted to an active agent with a non-empty history
C10_Witness ==
    /\ Commanded
    /\ last.message = <<"/","f","o","o">>
    /\ HasValue(last.response, <<"f","o","o">>)
    /\ last.pre.current_agent # None
    /\ Len(last.pre.conversation_history) = 2

\* the submission was a plain message (not blank, not a command)
PlainMessage ==
    Submitted /\ last.responded
    /\ parse_chat_command(last.message).type = "message"

\* C11: a plain message with no active agent is answered with the onboarding
\* text, which has the word "create" in it, calls nothing and leaves the
\* session as it was; with an active agent it makes the run call, and then a
\* run that returns appends (user, the message) and (assistant, the result)
\* and is answered with the result, while a run that raises is answered with
\* an error text carrying the exception and leaves the session as it was.
C11_PlainMessage ==
    PlainMessage
        => IF last.pre.current_agent = None
           THEN /\ last.response = Onboarding
                /\ HasWord(last.response, "create")
                /\ last.delegate = "none"
                /\ chat_agent_state = last.pre
           ELSE /\ last.delegate = "run"
                /\ IF last.outcome.raises
                   THEN /\ chat_agent_state = last.pre
                        /\ last.response[1] = Lit("**Error:** ")
                        /\ HasValue(last.response, last.outcome.value)
                        /\ last.chatbot
                              = Append(last.history,
                                       Row(<<last.message>>, last.response))
                   ELSE /\ chat_agent_state
                              = [last.pre EXCEPT !.conversation_history =
                                    @ \o <<Entry("user", last.message),
                                           Entry("assistant",
                                                 last.outcome.value)>>]
                        /\ last.response = <<Val(last.outcome.value)>>

\* the run of a plain message raised in a session whose history held a pair
C11_Witness ==
    /\ PlainMessage /\ RunRaised
    /\ last.pre.current_agent # None
    /\ Len(last.pre.conversation_history) = 2
    /\ History = last.pre.conversation_history

\* /create made the constructor call, and the call raised / returned
CreateRaised ==
    Command(CMD_create) /\ last.delegate = "Agent" /\ last.outcome.raises

CreateReturned ==
    Command(CMD_create) /\ last.delegate = "Agent" /\ ~last.outcome.raises

\* C13: a /create whose constructor call raises is answered with an error
\* text carrying the exception, and the session (active agent, agent name,
\* history) is left as it was.
C13_CreateRaises ==
    CreateRaised
        => /\ chat_agent_state = last.pre
           /\ last.response
                 = <<Lit("Error creating agent: "), Val(last.outcome.value)>>

\* the constructor raised while agent X was active with a non-empty history
C13_Witness ==
    /\ CreateRaised
    /\ last.pre.current_agent # None
    /\ last.pre.agent_name = <<"X">>
    /\ ArgsOfLast = <<"Y">>
    /\ Len(last.pre.conversation_history) = 2
    /\ chat_agent_state = last.pre

\* the texts that say that no agent is active
NoneActiveTexts == {NoAgentCurrentlyActive, NoAgentActive}

\* C14: /agent, with or without an argument, leaves the session as it was,
\* and its answer has the active agent's name in it when an agent is active
\* and is a "none active" text when none is.
C14_AgentReports ==
    Command(CMD_agent)
        => /\ chat_agent_state = last.pre
           /\ last.delegate = "none"
           /\ IF last.pre.current_agent # None
              THEN HasValue(last.response, last.pre.agent_name)
              ELSE last.response \in NoneActiveTexts

\* C15: /clear empties the history and leaves the active-agent reference,
\* the agent name and the handle's model, temperature and streaming flag as
\* they were; it calls nothing.
C15_ClearOnlyHistory ==
    Command(CMD_clear)
        => /\ History = <<>>
           /\ chat_agent_state.current_agent = last.pre.current_agent
           /\ chat_agent_state.agent_name = last.pre.agent_name
           /\ chat_agent_state
                 = [last.pre EXCEPT !.conversation_history = <<>>]
           /\ last.delegate = "none"
           /\ last.response = <<Lit("**Chat history cleared**")>>

\* /clear was submitted to an agent with a changed model, temperature and
\* streaming flag and a non-empty history
C15_Witness ==
    /\ Command(CMD_clear)
    /\ last.pre.current_agent # None
    /\ last.pre.current_agent.model_name # DefaultModel
    /\ last.pre.current_agent.temperature # DefaultTemperature
    /\ ~last.pre.current_agent.streaming_on
    /\ Len(last.pre.conversation_history) = 2
    /\ History = <<>>
    /\ chat_agent_state.current_agent = last.pre.current_agent

\* C16: /reset leaves the session equal to the session of process start (no
\* agent, agent name "Assistant", empty history) whatever it was before; it
\* calls nothing that can fail and answers with its success text; a second
\* /reset changes nothing.
C16_ResetToInitial ==
    Command(CMD_reset)
        => /\ chat_agent_state = InitialSession
           /\ chat_agent_state.current_agent = None
           /\ chat_agent_state.agent_name = DefaultAgentName
           /\ History = <<>>
           /\ last.delegate = "none"
           /\ last.response[1] = Lit("**Agent reset and history cleared.** Use '/")
           /\ cmd_reset(chat_agent_state).state = chat_agent_state
           /\ previous = "reset" => chat_agent_state = last.pre

\* /reset was submitted to an agent other than the default with a non-empty
\* history
C16_Witness ==
    /\ Command(CMD_reset)
    /\ last.pre.current_agent # None
    /\ last.pre.agent_name = <<"Y">>
    /\ Len(last.pre.conversation_history) = 4
    /\ chat_agent_state = InitialSession

\* C17: the agent a successful /create installs has the default
\* configuration (model "gpt-4", temperature 0.7, streaming on), whatever
\* the configuration of the agent it replaces.
C17_CreateDefaults ==
    CreateReturned
        => /\ chat_agent_state.current_agent.model_name = DefaultModel
           /\ chat_agent_state.current_agent.model_name = <<"g","p","t","-","4">>
           /\ chat_agent_state.current_agent.temperature = DefaultTemperature
           /\ float_str(chat_agent_state.current_agent.temperature)
                 = <<"0",".","7">>
           /\ chat_agent_state.current_agent.streaming_on = TRUE

\* /create succeeded over an agent whose model, temperature and streaming
\* flag had all been changed
C17_Witness ==
    /\ CreateReturned
    /\ last.pre.current_agent # None
    /\ last.pre.current_agent.model_name = <<"m","1">>
    /\ last.pre.current_agent.temperature = Finite(FALSE, 15)
    /\ ~last.pre.current_agent.streaming_on
    /\ chat_agent_state.current_agent.model_name = DefaultModel

\* C18: with an active agent, /streaming x sets the flag to true when x is
\* an "on" token (in any case), to false when x is an "off" token, and for
\* every other x, the empty one included, answers with the usage text and
\* leaves the session as it was; with no active agent it answers with the
\* no-agent error and leaves the session as it was.
C18_Streaming ==
    Command(CMD_streaming)
        => /\ last.delegate = "none"
           /\ IF last.pre.current_agent = None
              THEN /\ chat_agent_state = last.pre
                   /\ last.response = NoAgentActive
              ELSE IF lower(ArgsOfLast) \in StreamingOn
              THEN chat_agent_state
                      = [last.pre EXCEPT !.current_agent.streaming_on = TRUE]
              ELSE IF lower(ArgsOfLast) \in StreamingOff
              THEN chat_agent_state
                      = [last.pre EXCEPT !.current_agent.streaming_on = FALSE]
              ELSE /\ chat_agent_state = last.pre
                   /\ last.response = StreamingUsage

\* /streaming Off turned the flag of an active agent off
C18_Witness ==
    /\ Command(CMD_streaming)
    /\ ArgsOfLast = <<"O","f","f">>
    /\ last.pre.current_agent # None
    /\ last.pre.current_agent.streaming_on
    /\ ~chat_agent_state.current_agent.streaming_on

\* C19: /model m with an active agent and a non-empty m sets the handle's
\* model to m and changes nothing else (temperature, streaming flag, agent
\* name, history, the handle itself); with no agent or an empty m it
\* answers with a user error and leaves the session as it was.
C19_Model ==
    Command(CMD_model)
        => /\ last.delegate = "none"
           /\ IF last.pre.current_agent # None /\ ArgsOfLast # <<>>
              THEN /\ chat_agent_state.current_agent.model_name = ArgsOfLast
                   /\ chat_agent_state
                         = [last.pre EXCEPT
                               !.current_agent.model_name = ArgsOfLast]
              ELSE /\ chat_agent_state = last.pre
                   /\ last.response
                         = IF ArgsOfLast = <<>> THEN ModelUsage
                           ELSE NoAgentActive

\* /model changed the model of an agent with a changed temperature, its
\* streaming off and a non-empty history
C19_Witness ==
    /\ Command(CMD_model)
    /\ ArgsOfLast = <<"m","1">>
    /\ last.pre.current_agent # None
    /\ last.pre.current_agent.model_name = DefaultModel
    /\ last.pre.current_agent.temperature = Finite(FALSE, 15)
    /\ ~last.pre.current_agent.streaming_on
    /\ Len(last.pre.conversation_history) = 2
    /\ chat_agent_state.current_agent.model_name = <<"m","1">>

\* the handler was /save or the Save Chat button
Saved ==
    Command(CMD_save) \/ (Returned /\ last.handler = "save_conversation")

\* C20: /save and the Save Chat button leave the session as it was whether
\* the write succeeds or fails; a successful write serializes one document,
\* with the agent name and the whole history of the session at the time of
\* the call; a failed write is answered with an error text carrying the
\* exception.
C20_SaveFrame ==
    Saved
        => /\ chat_agent_state = last.pre
           /\ last.delegate = "open"
           /\ IF last.outcome.raises
              THEN /\ last.file = <<>>
                   /\ last.response[1] \in {Lit("Error saving conversation: "),
                                            Lit("Error saving: ")}
                   /\ HasValue(last.response, last.outcome.value)
              ELSE /\ Len(last.file) = 1
                   /\ last.file[1].agent_name = last.pre.agent_name
                   /\ last.file[1].history = last.pre.conversation_history

\* /save wrote the document of an agent with two pairs in its history
C20_Witness ==
    /\ Command(CMD_save) /\ ~last.outcome.raises
    /\ last.pre.current_agent # None
    /\ Len(last.pre.conversation_history) = 4
    /\ last.file[1].history = History
    /\ last.file[1].agent_name = chat_agent_state.agent_name

\* C12: handlers run one at a time, so that nothing touches the session
\* between the start and the return of a handler: when a /task whose run was
\* called on agent A has appended the pair of its successful run, A is still
\* the active agent, under the name it had, and the history is the history
\* the handler found with that pair appended.
C12_OneAtATime ==
    (pc.worker = "returned" /\ last.outcome = "returned"
       /\ parse_chat_command(last.message).command = CMD_task)
        => /\ last.post.current_agent = last.agent
           /\ last.post.agent_name = last.pre.agent_name
           /\ last.post.conversation_history
                 = last.pre.conversation_history
                     \o <<Entry("user",
                                TaskPrefix
                                  \o parse_chat_command(last.message).args),
                          Entry("assistant", last.result)>>

\* the commands that neither run the agent nor replace or empty the history
RunOrResetCommands == {CMD_create, CMD_reset, CMD_task, CMD_clear}

\* the length /info reported: the last value of its answer
InfoReports(n) == last.response[Len(last.response)] = Val(nat_str(n))

\* C21 as stated: with an agent active the history length, which /info
\* reports, is twice the number of runs that returned since the last
\* successful /create or /clear command.
C21_RunsSinceCommand ==
    /\ chat_agent_state.current_agent # None
          => Len(History) = 2 * previous.since_command
    /\ (Command(CMD_info) /\ last.pre.current_agent # None)
          => InfoReports(2 * previous.since_command)

\* C21: with an agent active the history length, which /info reports, is
\* twice the number of runs (/task or plain message) that returned since the
\* last successful /create, /clear command or click on Clear Chat; a command
\* other than /create, /reset, /task and /clear leaves the history as it was.
C21_RunsSinceClear ==
    /\ chat_agent_state.current_agent # None
          => Len(History) = 2 * previous.since_any
    /\ (Command(CMD_info) /\ last.pre.current_agent # None)
          => /\ InfoReports(2 * previous.since_any)
             /\ InfoReports(Len(History))
    /\ (Commanded
           /\ parse_chat_command(last.message).command
                 \notin RunOrResetCommands)
          => History = last.pre.conversation_history

\* /info reported the four entries of two runs made after a click on Clear
\* Chat that followed an earlier run
C21_Witness ==
    /\ Command(CMD_info)
    /\ last.pre.current_agent # None
    /\ previous = Runs(3, 2)
    /\ InfoReports(4)

\* C22: whenever no agent is active the session is the one of process
\* start: the agent name is "Assistant" and the history is empty.
C22_NoAgentInitial ==
    chat_agent_state.current_agent = None
        => /\ chat_agent_state.agent_name = DefaultAgentName
           /\ History = <<>>
           /\ chat_agent_state = InitialSession

\* the Reset Agent button was clicked on agent Y with two pairs in its
\* history, and no agent is active
C22_Witness ==
    /\ Returned /\ last.handler = "reset_agent"
    /\ last.pre.current_agent # None
    /\ last.pre.agent_name = <<"Y">>
    /\ Len(last.pre.conversation_history) = 4
    /\ chat_agent_state.current_agent = None

\* the session /reset and /clear leave when submitted to the session st
SessionAfter(st, message) ==
    chat_interface(st, message, <<>>, Raises, fresh_handle(st)).state

\* C23: the Reset Agent button leaves the session /reset leaves, and the
\* Clear Chat button the session /clear leaves, from every session; the
\* buttons empty the displayed chat log, the commands append their row.
C23_ButtonsAsCommands ==
    /\ reset_agent(chat_agent_state).state
          = SessionAfter(chat_agent_state, Bare(CMD_reset))
    /\ clear_chat(chat_agent_state).state
          = SessionAfter(chat_agent_state, Bare(CMD_clear))
    /\ (Returned /\ last.handler = "reset_agent")
          => /\ chat_agent_state = SessionAfter(last.pre, Bare(CMD_reset))
             /\ last.chatbot = <<>>
    /\ (Returned /\ last.handler = "clear_chat")
          => /\ chat_agent_state = SessionAfter(last.pre, Bare(CMD_clear))
             /\ last.chatbot = <<>>
    /\ Command(CMD_reset)
          => /\ chat_agent_state = reset_agent(last.pre).state
             /\ Len(last.chatbot) = Len(last.history) + 1
    /\ Command(CMD_clear)
          => /\ chat_agent_state = clear_chat(last.pre).state
             /\ Len(last.chatbot) = Len(last.history) + 1

\* the Clear Chat button was clicked on an agent with a changed model and a
\* pair in its history
C23_Witness ==
    /\ Returned /\ last.handler = "clear_chat"
    /\ last.pre.current_agent # None
    /\ last.pre.current_agent.model_name = <<"m","1">>
    /\ Len(last.pre.conversation_history) = 2
    /\ chat_agent_state = SessionAfter(last.pre, Bare(CMD_clear))
    /\ chat_agent_state # last.pre

\* C24: a submission that is not blank returns the chat log it was given
\* with exactly one row appended, [the input, the response], whatever the
\* input and whether its delegate call fails; a blank or whitespace-only
\* submission returns the log and leaves the session as they were.
C24_LogAppendOnly ==
    Submitted
        => IF strip(last.message) # <<>>
           THEN /\ Len(last.chatbot) = Len(last.history) + 1
                /\ SubSeq(last.chatbot, 1, Len(last.history)) = last.history
                /\ last.chatbot[Len(last.chatbot)]
                      = Row(<<last.message>>, last.response)
           ELSE /\ last.chatbot = last.history
                /\ chat_agent_state = last.pre

\* a plain message whose run raised was appended to a log with an earlier row
C24_Witness ==
    /\ PlainMessage /\ RunRaised
    /\ Len(last.history) = 1
    /\ Len(last.chatbot) = 2
    /\ last.chatbot[1] = last.history[1]

\* the positions of agent_names where a name starts: a character that is
\* neither blank nor a comma, with only blanks between it and the comma
\* before it (or the start of the text)
NameStarts(s) ==
    { i \in 1..Len(s) :
        /\ s[i] \notin Whitespace \cup {","}
        /\ \A j \in 1..(i - 1) :
              (\A k \in j..(i - 1) : s[k] # ",") => isspace(s[j]) }

\* the position where the name that starts at i ends: its last character
\* that is not blank before the next comma (or the end of the text)
NameEnd(s, i) ==
    CHOOSE e \in i..Len(s) :
        /\ \A k \in i..e : s[k] # ","
        /\ ~isspace(s[e])
        /\ \A f \in (e + 1)..Len(s) :
              (\A k \in i..f : s[k] # ",") => isspace(s[f])

\* the non-blank comma-separated names of agent_names, in input order
ExpectedNames(s) ==
    [n \in 1..Cardinality(NameStarts(s)) |->
        LET i == CHOOSE j \in NameStarts(s) :
                     Cardinality({m \in NameStarts(s) : m < j}) = n - 1
        IN  SubSeq(s, i, NameEnd(s, i))]

is_agent_line(l) == l[1] = Lit("- agent_name: ")

is_task_line(l) == l[1] = Lit("- ")

\* the agent names and the names of the tasks in a YAML text, in its order
AgentNamesIn(text) ==
    LET ls == SelectSeq(text, is_agent_line)
    IN  [i \in 1..Len(ls) |-> ls[i][2].val]

TaskNamesIn(text) ==
    LET ls == SelectSeq(text, is_task_line)
    IN  [i \in 1..Len(ls) |-> ls[i][3].val]

YamlGenerated == pc = "generated"

\* generate_agent_yaml returned a configuration
Produced ==
    /\ YamlGenerated
    /\ last.result.status
          = <<Lit("YAML configuration generated and saved to agents_config_<timestamp>.yaml")>>

\* the configuration returned has one agent entry and one task entry for
\* each name, in input order, and is what was written to the file
OnePerName ==
    /\ AgentNamesIn(last.result.text) = ExpectedNames(last.agent_names)
    /\ TaskNamesIn(last.result.text) = ExpectedNames(last.agent_names)
    /\ Len(AgentNamesIn(last.result.text)) = last.num_agents
    /\ last.result.file = <<last.result.text>>

\* C25 as stated: a configuration is produced exactly when the number of
\* non-blank comma-separated names equals num_agents, with one agent and one
\* task entry per name in input order; otherwise an error is returned and no
\* file is written.
C25_ConfigIffCount ==
    YamlGenerated
        => /\ Produced
                 <=> Len(ExpectedNames(last.agent_names)) = last.num_agents
           /\ Produced => OnePerName
           /\ ~Produced
                 => /\ last.result.status[1] \in {Lit("Error"), Lit("Error: ")}
                    /\ last.result.file = <<>>

\* C25: a configuration is produced exactly when the number of non-blank
\* comma-separated names equals num_agents and the file is written, with
\* one agent and one task entry per name in input order; when the numbers
\* differ an error naming num_agents is returned and no file is written;
\* when the write raises, the exception is returned as the error and no
\* configuration is in the file.
C25_ConfigWhenWritten ==
    YamlGenerated
        => LET matches ==
                   Len(ExpectedNames(last.agent_names)) = last.num_agents
           IN  /\ Produced <=> (matches /\ last.outcome = "written")
               /\ Produced => OnePerName
               /\ ~matches
                     => /\ last.result.status = <<Lit("Error")>>
                        /\ HasValue(last.result.text, nat_str(last.num_agents))
                        /\ last.result.file = <<>>
               /\ (matches /\ last.outcome # "written")
                     => /\ last.result.status
                              = <<Lit("Error: "), Val(ErrorText)>>
                        /\ last.result.file \in {<<>>, << <<>> >>}

\* two names, the second after a blank
C25_Witness ==
    /\ Produced
    /\ last.agent_names = <<"b", ",", " ", "a">>
    /\ last.num_agents = 2
    /\ AgentNamesIn(last.result.text) = << <<"b">>, <<"a">> >>
    /\ TaskNamesIn(last.result.text) = << <<"b">>, <<"a">> >>

====
